---------------------------- MODULE Spec2Model ----------------------------
(***************************************************************************)
(* Shadow-clone synchronisation of rounded-window-corners                  *)
(* (src/src/extension.ts and its second revision src/unnamed/part_000).    *)
(*                                                                         *)
(* The extension patches three host methods.  WindowPreview._addWindow     *)
(* adds a clone of the window's shadow to an overview preview;             *)
(* _prepareWorkspaceSwitch adds a shadow clone below every window clone    *)
(* of a workspace-switch animation and re-stacks them on 'restacked';      *)
(* _finishWorkspaceSwitch destroys them.  The two revisions differ only    *)
(* in the overview code; the variable build says which one runs.           *)
(*                                                                         *)
(* Scene-graph children are sequences ordered bottom to top: "immediately  *)
(* below x" is the index just before x.                                    *)
(***************************************************************************)
EXTENDS Integers, Sequences, FiniteSets

\* ------------------------------------------------------------- bounds ---
\* Patched or original _prepareWorkspaceSwitch calls the host makes within
\* one animation session (animateSwitch and a gesture begin may both call
\* it before the animation ends).
MaxPrepare == 2
\* Moves of a window clone the host makes on its own within one session.
MaxReorder == 1
\* Times the attached dialog is shown within the life of one preview.
MaxDialog == 1

Builds == {"extension.ts", "part_000"}

\* Two windows.  In the overview the preview is made for MainWindow and
\* DialogWindow is a modal dialog attached to it; in a workspace switch
\* both are plain window records.
Windows == {1, 2}
MainWindow == 1
DialogWindow == 2

\* Workspace groups of a switch session: <<monitor, workspace index>>.
\* Window 1 is on the first workspace and window 2 on all of them: a group
\* gets a record for any of the windows that can be seen on its workspace.
Groups == {<<1, 1>>, <<1, 2>>}
VisibleIn(g) == IF g[2] = 1 THEN {1, 2} ELSE {2}

EffectStates == {"none", "on", "off"}

VARIABLES
    \* --- the extension and the tracker's per-window record
    build,              \* which revision of extension.ts is running
    enabled,            \* TRUE between enable() and disable()
    shadow,             \* [w]: __rwc_rounded_window_info?.shadow is present
    should_round,       \* [w]: UI.ShouldHasRoundedCorners(window, cfg)
    effect,             \* [w]: rounded-corners effect: none, on, off
    \* --- workspace-switch animation
    _switchData,        \* "null" or "set": controller._switchData
    _windowRecords,     \* [g]: sequence of windows, one record each
    children,           \* [g]: children of the workspace group, bottom first
    _shadow_clone,      \* [g][w]: clone._shadow_clone, 0 = undefined
    restacked_id,       \* handlers connected to global.display 'restacked'
    ws_destroy_id,      \* handlers connected to a workspace group's 'destroy'
    notify_id,          \* handlers on a clone's 'notify::translation-z'
    clone_destroy_id,   \* handlers on a clone's 'destroy'
    calls,              \* _prepareWorkspaceSwitch calls in this session
    reorders,           \* host moves of a clone in this session
    \* --- overview: the WindowPreview of window MainWindow
    preview,            \* TRUE while the preview actor is alive
    preview_kids,       \* children of the preview, bottom first
    container_kids,     \* children of its window container, bottom first
    clone_effects,      \* windows whose content clone carries effects
    conn,               \* connections registry: <<source, signal, window, captured>>
    dialogs,            \* times the dialog was added to this preview
    leaving,            \* overview ... _workspacesDisplay._leavingOverview
    \* --- properties of the actors of a workspace-switch session
    clone_props,        \* [g][w]: visible and translationZ of the host clone
    shadow_props,       \* [id]: visible, translationZ and box of a shadow clone
    \* --- geometry: one call of each box computation
    geo_in,             \* the values the computation reads
    ws_box,             \* box given to a workspace-switch shadow clone
    allocation,         \* box after OverviewShadowActor.vfunc_allocate, and
                        \* whether the call threw
    \* --- observation of the run (history, read by no handler)
    qualifiedAtInit,    \* the preview's window qualified when _init added it
    last,               \* the operation that produced this state
    created,            \* shadow clones created in the current/last session
    destroyed,          \* shadow clones destroyed in it
    liveAtOrig,         \* shadow clones alive when the original finish ran
    doubleDestroy,      \* destroy() was called on a destroyed shadow clone
    doubleDisconnect,   \* disconnect() was called on a released handler
    proto,              \* what the three patched host methods are now
    _orig               \* what enable() saved of them in this._orig_*

trackerVars == <<shadow, should_round, effect>>
switchVars == <<_switchData, _windowRecords, children, _shadow_clone,
                restacked_id, ws_destroy_id, notify_id, clone_destroy_id,
                calls, reorders>>
overviewVars == <<preview, preview_kids, container_kids, clone_effects, conn,
                  dialogs, leaving, qualifiedAtInit>>
mirrorVars == <<clone_props, shadow_props>>
geoVars == <<geo_in, ws_box, allocation>>
patchVars == <<proto, _orig>>
switchHist == <<created, destroyed, liveAtOrig>>
flags == <<doubleDestroy, doubleDisconnect>>
vars == <<build, enabled, trackerVars, switchVars, overviewVars, mirrorVars,
          geoVars, patchVars, last, switchHist, flags>>

\* ------------------------------------------------------ scene graph ---
Clone(w) == <<"clone", w, 0>>
Shadow(w, k) == <<"shadow", w, k>>

Has(s, x) == \E i \in 1..Len(s) : s[i] = x
IndexOf(s, x) == CHOOSE i \in 1..Len(s) : s[i] = x
Without(s, x) == SelectSeq(s, LAMBDA y : y # x)
InsertAt(s, i, x) == SubSeq(s, 1, i - 1) \o <<x>> \o SubSeq(s, i, Len(s))
Occurrences(s, x) == Cardinality({i \in 1..Len(s) : s[i] = x})

\* The same insertion on the other side of the sibling.
insert_child_above(kids, child, sibling) ==
    IF Has(kids, sibling) THEN InsertAt(kids, IndexOf(kids, sibling) + 1, child)
    ELSE kids

\* Clutter.Actor.insert_child_below(child, sibling)
insert_child_below(kids, child, sibling) ==
    IF Has(kids, sibling) THEN InsertAt(kids, IndexOf(kids, sibling), child)
    ELSE kids

\* Clutter.Actor.set_child_below_sibling(child, sibling): both must be
\* children already, otherwise Clutter refuses the call.
set_child_below_sibling(kids, child, sibling) ==
    IF Has(kids, child) /\ Has(kids, sibling)
    THEN insert_child_below(Without(kids, child), child, sibling)
    ELSE kids

RECURSIVE SortedSeq(_)
SortedSeq(S) ==
    IF S = {} THEN <<>>
    ELSE LET m == CHOOSE x \in S : \A y \in S : x <= y
         IN <<m>> \o SortedSeq(S \ {m})

ShadowIds == Groups \X Windows \X (1..MaxPrepare)
LiveShadows == {id \in ShadowIds : Has(children[id[1]], Shadow(id[2], id[3]))}

\* ------------------------------------------- workspace-switch hooks ---
\* The test without its second half.
QualifiesByShadowAlone(w) == shadow[w]

\* The test that guards the attach in _prepareWorkspaceSwitch.
QualifiesSwitch(w) == shadow[w] /\ effect[w] = "on"

\* The inner loop of _prepareWorkspaceSwitch over one group's records:
\* a shadow clone is inserted below the clone of every qualifying record.
RECURSIVE AttachAll(_, _, _, _)
AttachAll(kids, recs, i, k) ==
    IF i > Len(recs) THEN kids
    ELSE AttachAll(IF QualifiesSwitch(recs[i])
                   THEN insert_child_below(kids, Shadow(recs[i], k), Clone(recs[i]))
                   ELSE kids,
                   recs, i + 1, k)

\* The records a _prepareWorkspaceSwitch call attaches a shadow clone to.
Attached(recs) == {recs[i] : i \in {j \in 1..Len(recs) : QualifiesSwitch(recs[j])}}

\* The 'restacked' handler of one group: every record's shadow clone is
\* put back below its clone.
RECURSIVE RestackedHandler(_, _, _, _)
RestackedHandler(kids, recs, refs, i) ==
    IF i > Len(recs) THEN kids
    ELSE RestackedHandler(IF refs[recs[i]] # 0
                          THEN set_child_below_sibling(kids, Shadow(recs[i], refs[recs[i]]), Clone(recs[i]))
                          ELSE kids,
                          recs, refs, i + 1)

\* A finish loop that destroys the shadow clones and keeps the references.
RECURSIVE FinishLoopKeepsRefs(_, _, _, _, _)
FinishLoopKeepsRefs(kids, recs, refs, i, stale) ==
    IF i > Len(recs) THEN [kids |-> kids, refs |-> refs, stale |-> stale]
    ELSE LET w == recs[i]
             s == Shadow(w, refs[w])
         IN IF refs[w] = 0 THEN FinishLoopKeepsRefs(kids, recs, refs, i + 1, stale)
            ELSE FinishLoopKeepsRefs(Without(kids, s), recs, refs, i + 1,
                                     stale \/ ~Has(kids, s))

\* The loop of _finishWorkspaceSwitch over one group's records:
\* _shadow_clone?.destroy() and delete _shadow_clone.  The result is the
\* group's children, its references, and the destroy() calls that hit an
\* actor which was destroyed before.
RECURSIVE FinishLoop(_, _, _, _, _)
FinishLoop(kids, recs, refs, i, stale) ==
    IF i > Len(recs) THEN [kids |-> kids, refs |-> refs, stale |-> stale]
    ELSE LET w == recs[i]
             s == Shadow(w, refs[w])
         IN IF refs[w] = 0 THEN FinishLoop(kids, recs, refs, i + 1, stale)
            ELSE FinishLoop(Without(kids, s), recs, [refs EXCEPT ![w] = 0], i + 1,
                            stale \/ ~Has(kids, s))

\* The canonical shadow actor of window w, the source of its shadow clones.
ShadowActor(w) == <<"shadow_actor", w, 0>>

\* A finish loop that destroys the sources of the shadow clones.
FinishDestroysSources(recs, refs) ==
    {ShadowActor(recs[i]) : i \in {j \in 1..Len(recs) : refs[recs[j]] # 0}}

\* The actors the loop of _finishWorkspaceSwitch calls destroy() on.
FinishDestroys(recs, refs) ==
    {Shadow(recs[i], refs[recs[i]]) : i \in {j \in 1..Len(recs) : refs[recs[j]] # 0}}

\* The windows' shadow actors after destroy() was called on nodes.
AfterDestroy(nodes) ==
    [w \in Windows |-> shadow[w] /\ ShadowActor(w) \notin nodes]

\* A group 'destroy' handler that only disconnects itself.
OnWorkspaceDestroyKeepsRestacked(gs) ==
    LET hs == {h \in ws_destroy_id : h[1] \in gs}
    IN [restacked |-> restacked_id,
        ws_destroy |-> ws_destroy_id \ hs,
        twice |-> FALSE]

\* The 'destroy' handler of the workspace groups in gs: each connected
\* handler disconnects its restacked_id from the display and then itself.
\* twice: a disconnect hit a handler that was released before.
OnWorkspaceDestroy(gs) ==
    LET hs == {h \in ws_destroy_id : h[1] \in gs}
    IN [restacked |-> restacked_id \ hs,
        ws_destroy |-> ws_destroy_id \ hs,
        twice |-> hs \ restacked_id # {}]

\* A clone 'destroy' handler that stays connected.
OnCloneDestroyStaysConnected(cs) ==
    LET hs == {h \in clone_destroy_id : <<h[1], h[2]>> \in cs}
    IN [notify |-> notify_id \ hs,
        clone_destroy |-> clone_destroy_id,
        twice |-> hs \ notify_id # {}]

\* The 'destroy' handler of the host clones in cs (pairs <<g, w>>): each
\* connected handler disconnects its notify_id and then itself.  It does
\* not touch the shadow clone.
OnCloneDestroy(cs) ==
    LET hs == {h \in clone_destroy_id : <<h[1], h[2]>> \in cs}
    IN [notify |-> notify_id \ hs,
        clone_destroy |-> clone_destroy_id \ hs,
        twice |-> hs \ notify_id # {}]

\* --------------------------------- properties of the session's actors ---
\* constants.SHADOW_PADDING
SHADOW_PADDING == 80
\* The 0.05 the 'notify::translation-z' handler subtracts, in hundredths;
\* every translationZ of the model is in hundredths.
Epsilon == 5
ZValues == {0, 100}

\* What a session reads of window w: its frame rectangle, the positions of
\* its actor and of its clone, and UI.WindowScaleFactor.
Geometry(w) ==
    [frame_rect |-> [x |-> 90, y |-> 40, width |-> 1024, height |-> 768],
     actor |-> [x |-> 90, y |-> 40],
     clone |-> [x |-> 100 * w, y |-> 50],
     scale |-> w]

\* A shadow clone box whose paddings ignore the window's scale factor.
ShadowCloneBoxUnscaled(frame_rect, clone, actor, scale) ==
    [width |-> frame_rect.width + SHADOW_PADDING * 2,
     height |-> frame_rect.height + SHADOW_PADDING * 2,
     x |-> clone.x + frame_rect.x - actor.x - SHADOW_PADDING,
     y |-> clone.y + frame_rect.y - actor.y - SHADOW_PADDING]

\* The width, height, x and y _prepareWorkspaceSwitch gives a shadow clone.
ShadowCloneBox(frame_rect, clone, actor, scale) ==
    LET paddings == SHADOW_PADDING * scale
    IN [width |-> frame_rect.width + paddings * 2,
        height |-> frame_rect.height + paddings * 2,
        x |-> clone.x + frame_rect.x - actor.x - paddings,
        y |-> clone.y + frame_rect.y - actor.y - paddings]

NoBox == [width |-> 0, height |-> 0, x |-> 0, y |-> 0]

\* A clone the host has just added to its group, and a shadow clone that
\* does not exist.
NewCloneProps == [visible |-> TRUE, translationZ |-> 0]
NoShadowProps == [visible |-> FALSE, translationZ |-> 0, box |-> NoBox]
NoCloneProps == [g \in Groups |-> [w \in Windows |-> NewCloneProps]]
NoShadows == [id \in ShadowIds |-> NoShadowProps]

\* A shadow clone as _prepareWorkspaceSwitch leaves it: new Clutter.Clone
\* with its box set, shown when it is inserted into the group; the
\* 'visible' binding (flags 0) and the translation-z handler have not run.
NewShadowProps(w) ==
    LET geo == Geometry(w)
    IN [visible |-> TRUE,
        translationZ |-> 0,
        box |-> ShadowCloneBox(geo.frame_rect, geo.clone, geo.actor, geo.scale)]

\* clone.bind_property('visible', shadow_clone, 'visible', 0): when the
\* clone's visible changes to v, every shadow clone bound to it follows.
OnNotifyVisible(g, w, v) ==
    [id \in ShadowIds |->
        IF id[1] = g /\ id[2] = w /\ id \in LiveShadows
        THEN [shadow_props[id] EXCEPT !.visible = v]
        ELSE shadow_props[id]]

\* A translation-z handler that moves the shadow clone as well.
OnNotifyTranslationZMovesBox(g, w, z) ==
    [id \in ShadowIds |->
        IF id[1] = g /\ id[2] = w /\ id \in notify_id
        THEN [shadow_props[id] EXCEPT !.translationZ = z - Epsilon,
                                      !.box.x = @ + z]
        ELSE shadow_props[id]]

\* The 'notify::translation-z' handlers connected to the clone of w in g.
OnNotifyTranslationZ(g, w, z) ==
    [id \in ShadowIds |->
        IF id[1] = g /\ id[2] = w /\ id \in notify_id
        THEN [shadow_props[id] EXCEPT !.translationZ = z - Epsilon]
        ELSE shadow_props[id]]

\* ----------------------------------------------------------- numbers ---
\* JavaScript numbers that come out of a division: fractions <<n, d>> in
\* lowest terms with d >= 0, where <<1, 0>> and <<-1, 0>> are the two
\* infinities and <<0, 0>> is NaN.  Rounding is not modelled.
Abs(i) == IF i < 0 THEN -i ELSE i
Sign(i) == IF i < 0 THEN -1 ELSE IF i = 0 THEN 0 ELSE 1

RECURSIVE Gcd(_, _)
Gcd(a, b) == IF b = 0 THEN a ELSE Gcd(b, a % b)

Norm(n, d) ==
    IF d = 0 THEN <<Sign(n), 0>>
    ELSE LET g == Gcd(Abs(n), Abs(d))
         IN <<(Sign(d) * n) \div g, Abs(d) \div g>>

Num(i) == <<i, 1>>
IsNaN(a) == a = <<0, 0>>
Times(a, b) == Norm(a[1] * b[1], a[2] * b[2])
Over(a, b) == Norm(a[1] * b[2], a[2] * b[1])
Plus(a, b) ==
    IF a[2] = 0 /\ b[2] = 0
    THEN (IF a = b THEN a ELSE <<0, 0>>)
    ELSE Norm(a[1] * b[2] + b[1] * a[2], a[2] * b[2])
Minus(a, b) == Plus(a, <<-b[1], b[2]>>)
Leq(a, b) ==
    /\ ~IsNaN(a) /\ ~IsNaN(b)
    /\ IF a[2] = 0 /\ b[2] = 0 THEN a[1] <= b[1]
       ELSE a[1] * b[2] <= b[1] * a[2]
\* Math.min
Min(a, b) ==
    IF IsNaN(a) \/ IsNaN(b) THEN <<0, 0>>
    ELSE IF Leq(a, b) THEN a ELSE b

\* ------------------------------------------- OverviewShadowActor box ---
\* The values one vfunc_allocate call and one shadow-clone box computation
\* read.  meta_win, source and parent say whether get_meta_window(),
\* the host clone's get_source() and its get_parent() return an object.
GeoInputs ==
    [frame_rect : {[x |-> 90, y |-> 40, width |-> fw, height |-> fh] :
                      fw \in {0, 800}, fh \in {0, 600}},
     grow : {0, 20},
     container : {[width |-> 400, height |-> 300], [width |-> 0, height |-> 0]},
     preview_grow : {0, 40},
     target : {[x |-> 0, y |-> 0], [x |-> 100, y |-> 50], [x |-> 1000, y |-> 50]},
     actor : {[x |-> 90, y |-> 40], [x |-> 80, y |-> 30]},
     scale : {1, 2},
     meta_win : BOOLEAN,
     source : BOOLEAN,
     parent : BOOLEAN,
     attached : BOOLEAN]

\* get_buffer_rect(): the frame rectangle grown by the invisible border.
buf_rect(in) == [width |-> in.frame_rect.width + in.grow,
                 height |-> in.frame_rect.height + in.grow]
\* The preview's own allocation box: the container's, grown by whatever
\* the preview lays out around it.
preview_box(in) == [width |-> in.container.width + in.preview_grow,
                    height |-> in.container.height + in.preview_grow]

\* The box every allocation starts from.
BoxIn == [x |-> Num(0), y |-> Num(0), width |-> Num(0), height |-> Num(0)]

\* The allocation box extension.ts measures the shadow against.
windowContainerBox(in) == IF leaving THEN in.container ELSE preview_box(in)

\* paddings of extension.ts's vfunc_allocate.
PaddingsByPreview(in) ==
    LET container_scaled == Over(Num(windowContainerBox(in).width),
                                 Num(in.frame_rect.width))
    IN Times(Times(Num(SHADOW_PADDING), container_scaled), Num(in.scale))

\* scale and paddings of part_000's vfunc_allocate.
ScaleByTarget(in) ==
    Min(Over(Num(in.container.width), Num(in.frame_rect.width)),
        Over(Num(in.container.height), Num(in.frame_rect.height)))
PaddingsByTarget(in) ==
    Times(Times(Num(SHADOW_PADDING), ScaleByTarget(in)), Num(in.scale))

\* OverviewShadowActor.vfunc_allocate of extension.ts.
AllocateByPreview(in, box) ==
    IF ~in.meta_win THEN [box |-> box, threw |-> FALSE]
       ELSE LET paddings == PaddingsByPreview(in)
            IN [box |-> [x |-> Minus(Num(0), paddings),
                         y |-> Minus(Num(0), paddings),
                         width |-> Plus(Num(windowContainerBox(in).width),
                                        Times(Num(2), paddings)),
                         height |-> Plus(Num(windowContainerBox(in).height),
                                         Times(Num(2), paddings))],
                threw |-> FALSE]

\* OverviewShadowActor.vfunc_allocate of part_000.  get_source() of a host
\* clone without source is null, and get_meta_window() on it throws.
AllocateByTarget(in, box) ==
    IF ~in.source THEN [box |-> box, threw |-> TRUE]
    ELSE IF ~(in.meta_win /\ in.parent) THEN [box |-> box, threw |-> FALSE]
    ELSE IF in.attached THEN [box |-> box, threw |-> FALSE]
    ELSE LET frame == in.frame_rect
             buf == buf_rect(in)
             scale == ScaleByTarget(in)
             paddings == PaddingsByTarget(in)
             x == Plus(Num(in.target.x),
                       Times(Over(Num(buf.width - frame.width), Num(2)), scale))
             y == Plus(Num(in.target.y),
                       Times(Over(Num(buf.height - frame.height), Num(2)), scale))
             width == Minus(Times(Num(frame.width), scale), x)
             height == Minus(Times(Num(frame.height), scale), y)
         IN [box |-> [x |-> Minus(x, paddings),
                      y |-> Minus(y, paddings),
                      width |-> Plus(width, Times(Num(2), paddings)),
                      height |-> Plus(height, Times(Num(2), paddings))],
             threw |-> FALSE]

\* ------------------------------------------------------ overview hook ---
Preview == <<"preview", MainWindow, 0>>
windowContainer == <<"container", MainWindow, 0>>
OverviewShadowActor(w) == <<"shadow", w, 0>>
EffectRef(w) == <<"effect", w, 0>>
NoEffect(w) == <<"undefined", w, 0>>

\* The host's call paths into WindowPreview._addWindow, innermost first.
InitPath == <<"_init">>
DialogPaths == {<<"addDialog">>, <<"addDialog", "_updateAttachedDialogs", "_init">>}

\* stackMsg(): the frames of the current call stack, _addWindow first.
stackMsg(path) == <<"_addWindow">> \o path

\* The stack test of _addWindow: extension.ts leaves when the call comes
\* from the dialog paths; in part_000 these two tests are commented out.
StackFiltered(stack) ==
    IF build = "extension.ts"
    THEN Has(stack, "_updateAttachedDialogs") \/ Has(stack, "addDialog")
    ELSE FALSE

\* The overview test without ShouldHasRoundedCorners.
QualifiesOverviewByShadowAlone(w) == shadow[w]

\* has_rounded_corners && shadow
QualifiesOverview(w) == shadow[w] /\ should_round[w]

\* UI.get_rounded_corners_effect(windowActor)
get_rounded_corners_effect(w) == IF effect[w] = "none" THEN NoEffect(w) ELSE EffectRef(w)

\* The 'destroy' handler part_000 connects to a content clone: it clears
\* the clone's effects, re-enables the window's own effect when the
\* overview is being left, and disconnects the clone's registry entries.
\* It does not destroy the shadow clone.  st = [effect, fx, conn].
OnContentCloneDestroy(w, st) ==
    LET hs == {c \in st.conn : c[1] = Clone(w) /\ c[2] = "destroy"}
    IN IF hs = {} THEN st
       ELSE [effect |-> IF leaving /\ (\E c \in hs : c[4] = EffectRef(w))
                           /\ st.effect[w] # "none"
                        THEN [st.effect EXCEPT ![w] = "on"]
                        ELSE st.effect,
             fx |-> st.fx \ {Clone(w)},
             conn |-> {c \in st.conn : c[1] # Clone(w)}]

\* A preview 'destroy' handler without its disconnect_all.
OnPreviewDestroyStaysConnected(st) ==
    LET hs == {c \in st.conn : c[1] = Preview /\ c[2] = "destroy"}
    IN IF hs = {} THEN st
       ELSE [kids |-> SelectSeq(st.kids,
                        LAMBDA n : \A c \in hs : n # OverviewShadowActor(c[3])),
             fx |-> st.fx \ {c[4] : c \in hs},
             conn |-> st.conn]

\* The 'destroy' handler extension.ts connects to the preview: it destroys
\* the shadow clone, clears the effects of the container's first child and
\* disconnects the preview's registry entries.  st = [kids, fx, conn].
OnPreviewDestroy(st) ==
    LET hs == {c \in st.conn : c[1] = Preview /\ c[2] = "destroy"}
    IN IF hs = {} THEN st
       ELSE [kids |-> SelectSeq(st.kids,
                        LAMBDA n : \A c \in hs : n # OverviewShadowActor(c[3])),
             fx |-> st.fx \ {c[4] : c \in hs},
             conn |-> {c \in st.conn : c[1] # Preview}]

\* WindowPreview.prototype._addWindow(window), called along path on a
\* preview whose children are pk and whose container's children are ck.
\* The host part adds the window's content clone on top of the container.
_addWindow(w, path, pk, ck) ==
    LET ck1 == ck \o <<Clone(w)>>
        attach == enabled /\ ~StackFiltered(stackMsg(path)) /\ QualifiesOverview(w)
        firstChild == ck1[1]
    IN IF ~attach
       THEN /\ preview_kids' = pk
            /\ container_kids' = ck1
            /\ UNCHANGED <<clone_effects, conn, effect>>
       ELSE IF build = "extension.ts"
       THEN /\ preview_kids' = insert_child_below(pk, OverviewShadowActor(w), windowContainer)
            /\ container_kids' = ck1
            /\ clone_effects' = clone_effects \cup {firstChild}
            /\ conn' = conn \cup {<<Preview, "destroy", w, firstChild>>}
            /\ UNCHANGED effect
       ELSE /\ preview_kids' = pk
            /\ container_kids' = insert_child_below(ck1, OverviewShadowActor(w), Clone(w))
            /\ clone_effects' = clone_effects \cup {Clone(w)}
            /\ effect' = [effect EXCEPT ![w] = IF @ = "none" THEN "none" ELSE "off"]
            /\ conn' = conn \cup {<<Clone(w), "notify::width", w, Clone(w)>>,
                                  <<Clone(w), "destroy", w, get_rounded_corners_effect(w)>>}

\* --------------------------------------------------------------- Init ---
NoRefs == [g \in Groups |-> [w \in Windows |-> 0]]
Empty == [g \in Groups |-> <<>>]

\* Everything but the inputs of the box computations.
InitProgram ==
    /\ build \in Builds
    /\ enabled = TRUE
    /\ _switchData = "null"
    /\ _windowRecords = Empty
    /\ children = Empty
    /\ _shadow_clone = NoRefs
    /\ restacked_id = {}
    /\ ws_destroy_id = {}
    /\ notify_id = {}
    /\ clone_destroy_id = {}
    /\ calls = 0
    /\ reorders = 0
    /\ preview = FALSE
    /\ preview_kids = <<>>
    /\ container_kids = <<>>
    /\ clone_effects = {}
    /\ conn = {}
    /\ dialogs = 0
    /\ leaving = FALSE
    /\ clone_props = NoCloneProps
    /\ shadow_props = NoShadows
    /\ qualifiedAtInit = FALSE
    /\ last = "init"
    /\ created = 0
    /\ destroyed = 0
    /\ liveAtOrig = 0
    /\ doubleDestroy = FALSE
    /\ doubleDisconnect = FALSE
    /\ proto = "patched"
    /\ _orig = "original"

NoGeometry == CHOOSE in \in GeoInputs : ~in.meta_win /\ ~in.source /\ ~in.parent

\* The tracker has no record of any window yet.
NoRecords ==
    /\ shadow = [w \in Windows |-> FALSE]
    /\ should_round = [w \in Windows |-> FALSE]
    /\ effect = [w \in Windows |-> "none"]

\* The tracker has given every window a shadow actor and an enabled effect.
AllRounded ==
    /\ shadow = [w \in Windows |-> TRUE]
    /\ should_round = [w \in Windows |-> TRUE]
    /\ effect = [w \in Windows |-> "on"]

Init ==
    /\ InitProgram
    /\ NoRecords
    /\ geo_in = NoGeometry
    /\ ws_box = NoBox
    /\ allocation = [box |-> BoxIn, threw |-> FALSE]

\* ----------------------------------------------------------- tracker ---
\* The window actor tracker (a collaborator) adds or removes a window's
\* shadow actor and rounded-corners effect, or enables/disables the effect.
SetShadow(w) ==
    /\ enabled
    /\ shadow' = [shadow EXCEPT ![w] = ~shadow[w]]
    /\ last' = "other"
    /\ UNCHANGED <<mirrorVars, geoVars, patchVars, build, enabled, should_round, effect, switchVars,
                   overviewVars, switchHist, flags>>

SetEffect(w, e) ==
    /\ enabled
    /\ e # effect[w]
    /\ effect' = [effect EXCEPT ![w] = e]
    /\ last' = "other"
    /\ UNCHANGED <<mirrorVars, geoVars, patchVars, build, enabled, shadow, should_round, switchVars,
                   overviewVars, switchHist, flags>>

\* ------------------------------------------- _prepareWorkspaceSwitch ---
\* The host calls controller._prepareWorkspaceSwitch.  The original creates
\* the monitor groups, their workspace groups and one clone per window
\* record unless a session exists already, in which case it returns at
\* once; the patched method runs its loops after it either way.
PrepareWorkspaceSwitch ==
    /\ calls < MaxPrepare
    /\ \E shown \in [Groups -> SUBSET Windows] :
        LET fresh == _switchData = "null"
            recs == IF fresh THEN [g \in Groups |-> SortedSeq(shown[g])]
                    ELSE _windowRecords
            kids0 == IF fresh
                     THEN [g \in Groups |-> [i \in 1..Len(recs[g]) |-> Clone(recs[g][i])]]
                     ELSE children
            k == calls + 1
            new == {id \in ShadowIds : id[3] = k /\ id[2] \in Attached(recs[id[1]])}
        IN /\ \A g \in Groups : shown[g] \subseteq (IF fresh THEN VisibleIn(g) ELSE {})
           /\ _switchData' = "set"
           /\ _windowRecords' = recs
           /\ calls' = k
           /\ reorders' = IF fresh THEN 0 ELSE reorders
           /\ liveAtOrig' = 0
           /\ destroyed' = IF fresh THEN 0 ELSE destroyed
           /\ clone_props' = IF fresh THEN NoCloneProps ELSE clone_props
           /\ IF enabled
              THEN /\ children' = [g \in Groups |-> AttachAll(kids0[g], recs[g], 1, k)]
                   /\ _shadow_clone' = [g \in Groups |-> [w \in Windows |->
                          IF w \in Attached(recs[g]) THEN k
                          ELSE IF fresh THEN 0 ELSE _shadow_clone[g][w]]]
                   /\ restacked_id' = restacked_id \cup {<<g, k>> : g \in Groups}
                   /\ ws_destroy_id' = ws_destroy_id \cup {<<g, k>> : g \in Groups}
                   /\ notify_id' = notify_id \cup new
                   /\ clone_destroy_id' = clone_destroy_id \cup new
                   /\ created' = (IF fresh THEN 0 ELSE created) + Cardinality(new)
                   /\ shadow_props' = [id \in ShadowIds |->
                          IF id \in new THEN NewShadowProps(id[2])
                          ELSE shadow_props[id]]
                   /\ last' = "prepare"
              ELSE /\ children' = kids0
                   /\ _shadow_clone' = IF fresh THEN NoRefs ELSE _shadow_clone
                   /\ created' = IF fresh THEN 0 ELSE created
                   /\ last' = "other"
                   /\ UNCHANGED <<restacked_id, ws_destroy_id, notify_id,
                                  clone_destroy_id, shadow_props>>
    /\ UNCHANGED <<geoVars, patchVars, build, enabled, trackerVars, overviewVars, flags>>

\* --------------------------------------------------------- restacked ---
\* global.display emits 'restacked': every connected handler runs.
Restacked ==
    /\ children' = [g \in Groups |->
          IF \E h \in restacked_id : h[1] = g
          THEN RestackedHandler(children[g], _windowRecords[g], _shadow_clone[g], 1)
          ELSE children[g]]
    /\ last' = "restacked"
    /\ UNCHANGED <<mirrorVars, geoVars, patchVars, build, enabled, trackerVars, _switchData, _windowRecords,
                   _shadow_clone, restacked_id, ws_destroy_id, notify_id,
                   clone_destroy_id, calls, reorders, overviewVars, switchHist,
                   flags>>

\* The host moves one window clone to another place in its group (its own
\* _syncStacking, or any other reordering of the group's children).
HostReorder(g, w, i) ==
    /\ reorders < MaxReorder
    /\ Has(children[g], Clone(w))
    /\ i \in 1..Len(children[g])
    /\ children[g][i] # Clone(w)
    /\ children' = [children EXCEPT ![g] = InsertAt(Without(@, Clone(w)), i, Clone(w))]
    /\ reorders' = reorders + 1
    /\ last' = "other"
    /\ UNCHANGED <<mirrorVars, geoVars, patchVars, build, enabled, trackerVars, _switchData, _windowRecords,
                   _shadow_clone, restacked_id, ws_destroy_id, notify_id,
                   clone_destroy_id, calls, overviewVars, switchHist, flags>>

\* ---------------------------------------------- _finishWorkspaceSwitch ---
\* The animation ends: the patched method destroys the shadow clone of
\* every record and deletes the reference, then calls the original, which
\* clears _switchData and destroys the monitor groups: each workspace group
\* emits 'destroy', destroys its records' clones and then its remaining
\* children.  After disable() the host calls the original alone.
FinishWorkspaceSwitch ==
    /\ _switchData = "set"
    /\ LET loop == [g \in Groups |->
                      IF enabled
                      THEN FinishLoop(children[g], _windowRecords[g], _shadow_clone[g], 1, FALSE)
                      ELSE [kids |-> children[g], refs |-> _shadow_clone[g], stale |-> FALSE]]
           wsd == OnWorkspaceDestroy(Groups)
           cd == OnCloneDestroy({c \in Groups \X Windows : Has(loop[c[1]].kids, Clone(c[2]))})
       IN /\ liveAtOrig' = Cardinality({id \in ShadowIds : Has(loop[id[1]].kids, Shadow(id[2], id[3]))})
          /\ doubleDestroy' = (doubleDestroy \/ \E g \in Groups : loop[g].stale)
          /\ restacked_id' = wsd.restacked
          /\ ws_destroy_id' = wsd.ws_destroy
          /\ notify_id' = cd.notify
          /\ clone_destroy_id' = cd.clone_destroy
          /\ doubleDisconnect' = (doubleDisconnect \/ wsd.twice \/ cd.twice)
    /\ _switchData' = "null"
    /\ _windowRecords' = Empty
    /\ children' = Empty
    /\ _shadow_clone' = NoRefs
    /\ calls' = 0
    /\ reorders' = 0
    /\ destroyed' = destroyed + Cardinality(LiveShadows)
    /\ clone_props' = NoCloneProps
    /\ shadow_props' = NoShadows
    /\ shadow' = IF enabled
                 THEN AfterDestroy(UNION {FinishDestroys(_windowRecords[g], _shadow_clone[g]) :
                                             g \in Groups})
                 ELSE shadow
    /\ last' = IF enabled THEN "finish" ELSE "finish_orig"
    /\ UNCHANGED <<geoVars, patchVars, build, enabled, should_round, effect, created, overviewVars>>

\* ------------------------------------------------- host clone destroy ---
\* A window is closed during the animation: every workspace group that has
\* a record of it destroys the record's clone (its 'destroy' handlers run)
\* and drops the record; the tracker's record of the window goes with it.
WindowActorDestroyed(w) ==
    /\ _switchData = "set"
    /\ \E g \in Groups : Has(_windowRecords[g], w)
    /\ LET cd == OnCloneDestroy({c \in Groups \X {w} : Has(_windowRecords[c[1]], w)})
       IN /\ notify_id' = cd.notify
          /\ clone_destroy_id' = cd.clone_destroy
          /\ doubleDisconnect' = (doubleDisconnect \/ cd.twice)
    /\ children' = [g \in Groups |-> Without(children[g], Clone(w))]
    /\ _windowRecords' = [g \in Groups |-> Without(_windowRecords[g], w)]
    /\ _shadow_clone' = [g \in Groups |-> [_shadow_clone[g] EXCEPT ![w] = 0]]
    /\ shadow' = [shadow EXCEPT ![w] = FALSE]
    /\ effect' = [effect EXCEPT ![w] = "none"]
    /\ clone_props' = [g \in Groups |-> [clone_props[g] EXCEPT ![w] = NewCloneProps]]
    /\ UNCHANGED shadow_props
    /\ last' = "clone_destroyed"
    /\ UNCHANGED <<geoVars, patchVars, build, enabled, should_round, _switchData, restacked_id,
                   ws_destroy_id, calls, reorders, overviewVars, switchHist,
                   doubleDestroy>>

\* A host clone that had a shadow clone and is destroyed already is disposed
\* once more (Clutter emits 'destroy' on every dispose): the handlers still
\* connected to it run.
CloneDestroyedAgain(g, w) ==
    /\ _switchData = "set"
    /\ ~Has(children[g], Clone(w))
    /\ \E k \in 1..MaxPrepare : Has(children[g], Shadow(w, k))
    /\ LET cd == OnCloneDestroy({<<g, w>>})
       IN /\ notify_id' = cd.notify
          /\ clone_destroy_id' = cd.clone_destroy
          /\ doubleDisconnect' = (doubleDisconnect \/ cd.twice)
    /\ last' = "destroyed_again"
    /\ UNCHANGED <<mirrorVars, geoVars, patchVars, build, enabled, trackerVars, _switchData, _windowRecords,
                   children, _shadow_clone, restacked_id, ws_destroy_id, calls,
                   reorders, overviewVars, switchHist, doubleDestroy>>

\* ------------------------------------------- host changes of a clone ---
\* The host (or anything else in the shell) shows or hides a window clone.
HostSetVisible(g, w) ==
    /\ Has(children[g], Clone(w))
    /\ clone_props' = [clone_props EXCEPT ![g][w].visible = ~@]
    /\ shadow_props' = OnNotifyVisible(g, w, ~clone_props[g][w].visible)
    /\ last' = "other"
    /\ UNCHANGED <<geoVars, patchVars, build, enabled, trackerVars, switchVars,
                   overviewVars, switchHist, flags>>

\* The depth offset of a window clone changes (Desktop Cube and the like).
HostSetTranslationZ(g, w, z) ==
    /\ Has(children[g], Clone(w))
    /\ z # clone_props[g][w].translationZ
    /\ clone_props' = [clone_props EXCEPT ![g][w].translationZ = z]
    /\ shadow_props' = OnNotifyTranslationZ(g, w, z)
    /\ last' = "notify_z"
    /\ UNCHANGED <<geoVars, patchVars, build, enabled, trackerVars, switchVars,
                   overviewVars, switchHist, flags>>

\* ------------------------------------------------------------ overview ---
\* The tracker's or the settings' answer to ShouldHasRoundedCorners changes.
SetShouldRound(w) ==
    /\ should_round' = [should_round EXCEPT ![w] = ~should_round[w]]
    /\ last' = "other"
    /\ UNCHANGED <<mirrorVars, geoVars, patchVars, build, enabled, shadow, effect, switchVars, overviewVars,
                   switchHist, flags>>

\* The overview creates the WindowPreview of MainWindow: WindowPreview._init
\* builds the preview with its window container and calls _addWindow.
NewPreview ==
    /\ ~preview
    /\ preview' = TRUE
    /\ _addWindow(MainWindow, InitPath, <<windowContainer>>, <<>>)
    /\ qualifiedAtInit' = (enabled /\ QualifiesOverview(MainWindow))
    /\ dialogs' = 0
    /\ last' = "new_preview"
    /\ UNCHANGED <<mirrorVars, geoVars, patchVars, build, enabled, shadow, should_round, switchVars, leaving,
                   switchHist, flags>>

\* The host adds the attached dialog to the preview: addDialog, called by
\* _updateAttachedDialogs or by the window-added handler, calls _addWindow.
AddDialog(path) ==
    /\ preview
    /\ dialogs < MaxDialog
    /\ Has(container_kids, Clone(MainWindow))
    /\ ~Has(container_kids, Clone(DialogWindow))
    /\ _addWindow(DialogWindow, path, preview_kids, container_kids)
    /\ dialogs' = dialogs + 1
    /\ last' = "add_dialog"
    /\ UNCHANGED <<mirrorVars, geoVars, patchVars, build, enabled, shadow, should_round, switchVars, preview,
                   leaving, qualifiedAtInit, switchHist, flags>>

\* A window of the preview is closed: the container's layout destroys its
\* content clone, whose 'destroy' handlers run.
DestroyContentClone(w) ==
    /\ preview
    /\ Has(container_kids, Clone(w))
    /\ LET st == OnContentCloneDestroy(w, [effect |-> effect, fx |-> clone_effects,
                                           conn |-> conn])
       IN /\ effect' = st.effect
          /\ clone_effects' = st.fx \ {Clone(w)}
          /\ conn' = st.conn
    /\ container_kids' = Without(container_kids, Clone(w))
    /\ last' = "content_destroyed"
    /\ UNCHANGED <<mirrorVars, geoVars, patchVars, build, enabled, shadow, should_round, switchVars, preview,
                   preview_kids, dialogs, leaving, qualifiedAtInit, switchHist,
                   flags>>

\* The preview is destroyed: its 'destroy' handlers run, then Clutter
\* destroys its children, the container and every child of the container;
\* each content clone emits 'destroy' on the way.
DestroyPreview ==
    /\ preview
    /\ LET p == OnPreviewDestroy([kids |-> preview_kids, fx |-> clone_effects,
                                  conn |-> conn])
           c0 == [effect |-> effect, fx |-> p.fx, conn |-> p.conn]
           c1 == IF Has(container_kids, Clone(MainWindow))
                 THEN OnContentCloneDestroy(MainWindow, c0) ELSE c0
           c2 == IF Has(container_kids, Clone(DialogWindow))
                 THEN OnContentCloneDestroy(DialogWindow, c1) ELSE c1
       IN /\ effect' = c2.effect
          /\ conn' = c2.conn
    /\ preview' = FALSE
    /\ preview_kids' = <<>>
    /\ container_kids' = <<>>
    /\ clone_effects' = {}
    /\ qualifiedAtInit' = FALSE
    /\ dialogs' = 0
    /\ last' = "preview_destroyed"
    /\ UNCHANGED <<mirrorVars, geoVars, patchVars, build, enabled, shadow, should_round, switchVars, leaving,
                   switchHist, flags>>

\* The overview starts leaving (_leavingOverview), or has left: the
\* overview session is over.
ToggleLeaving ==
    /\ leaving' = ~leaving
    /\ last' = IF leaving THEN "left" ELSE "leaving"
    /\ UNCHANGED <<mirrorVars, geoVars, patchVars, build, enabled, trackerVars, switchVars, preview,
                   preview_kids, container_kids, clone_effects, conn, dialogs,
                   qualifiedAtInit, switchHist, flags>>

\* ------------------------------------------------- box computations ---
\* One allocation pass of the overview shadow actor.
vfunc_allocate ==
    /\ allocation' = IF build = "extension.ts"
                     THEN AllocateByPreview(geo_in, BoxIn)
                     ELSE AllocateByTarget(geo_in, BoxIn)
    /\ last' = "allocate"
    /\ UNCHANGED <<patchVars, build, enabled, trackerVars, switchVars, overviewVars,
                   mirrorVars, geo_in, ws_box, switchHist, flags>>

\* The box _prepareWorkspaceSwitch computes for one shadow clone; the host
\* clone is the target of the inputs.
SetShadowCloneBox ==
    /\ ws_box' = ShadowCloneBox(geo_in.frame_rect, geo_in.target,
                                geo_in.actor, geo_in.scale)
    /\ last' = "switch_box"
    /\ UNCHANGED <<patchVars, build, enabled, trackerVars, switchVars, overviewVars,
                   mirrorVars, geo_in, allocation, switchHist, flags>>

\* ---------------------------------------------------- enable / disable ---
\* A disable() that leaves the host methods as they are.
KeepPatchedMethods(saved) == "patched"

\* disable(): the three host methods become what this._orig_* hold.
RestoreMethods(saved) == saved

\* disable(), called by the host or by the display's 'closing' handler:
\* the three host methods are restored, the tracker removes every window's
\* effect and shadow, and the connections registry disconnects everything.
\* A disable() after a disable() finds no tracker and an empty registry.
Disable ==
    /\ enabled' = FALSE
    /\ proto' = RestoreMethods(_orig)
    /\ shadow' = IF enabled THEN [w \in Windows |-> FALSE] ELSE shadow
    /\ effect' = IF enabled THEN [w \in Windows |-> "none"] ELSE effect
    /\ conn' = {}
    /\ last' = "disable"
    /\ UNCHANGED <<mirrorVars, geoVars, _orig, build, should_round, switchVars, preview, preview_kids,
                   container_kids, clone_effects, dialogs, leaving,
                   qualifiedAtInit, switchHist, flags>>

\* enable(), called by the host on a disabled extension: the three host
\* methods are saved and replaced by the patched ones.
Enable ==
    /\ ~enabled
    /\ enabled' = TRUE
    /\ _orig' = proto
    /\ proto' = "patched"
    /\ last' = "enable"
    /\ UNCHANGED <<mirrorVars, geoVars, build, trackerVars, switchVars, overviewVars, switchHist,
                   flags>>

\* ------------------------------------------------------ specifications ---
Tracker ==
    \/ \E w \in Windows : SetShadow(w)
    \/ \E w \in Windows, e \in EffectStates : SetEffect(w, e)

NextSwitch ==
    \/ Tracker
    \/ PrepareWorkspaceSwitch
    \/ Restacked
    \/ \E g \in Groups, w \in Windows, i \in 1..(2 * MaxPrepare + 2) : HostReorder(g, w, i)
    \/ FinishWorkspaceSwitch
    \/ \E w \in Windows : WindowActorDestroyed(w)
    \/ \E g \in Groups, w \in Windows : CloneDestroyedAgain(g, w)
    \/ Disable
    \/ Enable

\* The workspace-switch code is the same in both revisions and reads
\* nothing of the overview: its specification runs one of them.
InitSwitch == Init /\ build = "extension.ts"
SpecSwitch == InitSwitch /\ [][NextSwitch]_vars

\* The actors of a session of rounded windows: what the host does to the
\* clones between Preparing and Finishing.
InitMirror ==
    /\ InitProgram
    /\ build = "extension.ts"
    /\ AllRounded
    /\ geo_in = NoGeometry
    /\ ws_box = NoBox
    /\ allocation = [box |-> BoxIn, threw |-> FALSE]

NextMirror ==
    \/ PrepareWorkspaceSwitch
    \/ Restacked
    \/ \E g \in Groups, w \in Windows, i \in 1..(2 * MaxPrepare + 2) : HostReorder(g, w, i)
    \/ \E g \in Groups, w \in Windows : HostSetVisible(g, w)
    \/ \E g \in Groups, w \in Windows, z \in ZValues : HostSetTranslationZ(g, w, z)
    \/ FinishWorkspaceSwitch

SpecMirror == InitMirror /\ [][NextMirror]_vars

\* Both attach paths side by side: previews come and go while a session
\* is prepared, once or again.
NextAttach ==
    \/ Tracker
    \/ \E w \in Windows : SetShouldRound(w)
    \/ NewPreview
    \/ \E path \in DialogPaths : AddDialog(path)
    \/ DestroyPreview
    \/ PrepareWorkspaceSwitch

SpecAttach == Init /\ [][NextAttach]_vars

\* The two box computations on every input.
InitBox ==
    /\ InitProgram
    /\ NoRecords
    /\ geo_in \in GeoInputs
    /\ ws_box = NoBox
    /\ allocation = [box |-> BoxIn, threw |-> FALSE]

NextBox ==
    \/ vfunc_allocate
    \/ SetShadowCloneBox
    \/ ToggleLeaving

SpecBox == InitBox /\ [][NextBox]_vars

NextOverview ==
    \/ Tracker
    \/ \E w \in Windows : SetShouldRound(w)
    \/ NewPreview
    \/ \E path \in DialogPaths : AddDialog(path)
    \/ \E w \in Windows : DestroyContentClone(w)
    \/ DestroyPreview
    \/ ToggleLeaving
    \/ Disable
    \/ Enable

SpecOverview == Init /\ [][NextOverview]_vars

\* Every hook of the two synchronizers on windows the tracker has rounded,
\* with the extension disabled and enabled again in between.
InitHooks ==
    /\ InitProgram
    /\ AllRounded
    /\ geo_in = NoGeometry
    /\ ws_box = NoBox
    /\ allocation = [box |-> BoxIn, threw |-> FALSE]

NextHooks ==
    \/ NewPreview
    \/ \E path \in DialogPaths : AddDialog(path)
    \/ \E w \in Windows : DestroyContentClone(w)
    \/ DestroyPreview
    \/ ToggleLeaving
    \/ PrepareWorkspaceSwitch
    \/ Restacked
    \/ FinishWorkspaceSwitch
    \/ \E w \in Windows : WindowActorDestroyed(w)
    \/ \E g \in Groups, w \in Windows : CloneDestroyedAgain(g, w)
    \/ Disable
    \/ Enable

SpecHooks == InitHooks /\ [][NextHooks]_vars

Next == NextSwitch \/ NextOverview \/ NextMirror \/ NextBox
Spec == Init /\ [][Next]_vars

\* ================================================================ claims ===
\* The overview shadow clone of w is the only one of w in the preview and
\* sits immediately below the node it was inserted below: the window
\* container (extension.ts) or w's content clone (part_000).
ShadowBelowContent(w) ==
    LET s == OverviewShadowActor(w)
    IN IF build = "extension.ts"
       THEN /\ Occurrences(preview_kids, s) = 1
            /\ Occurrences(container_kids, s) = 0
            /\ Has(preview_kids, windowContainer)
            /\ IndexOf(preview_kids, s) + 1 = IndexOf(preview_kids, windowContainer)
       ELSE /\ Occurrences(container_kids, s) = 1
            /\ Occurrences(preview_kids, s) = 0
            /\ Has(container_kids, Clone(w))
            /\ IndexOf(container_kids, s) + 1 = IndexOf(container_kids, Clone(w))

\* C1 as stated: in every state, every window that has rounded corners and
\* a shadow actor now, and whose content clone is in the preview, has
\* exactly one shadow clone there, immediately below the content node.
C1_EveryRoundedWindowHasShadowClone ==
    \A w \in Windows :
        (shadow[w] /\ should_round[w] /\ preview /\ Has(container_kids, Clone(w)))
            => ShadowBelowContent(w)

\* C1 amended: the window a preview was created for, if it had rounded
\* corners and a shadow actor when the patched _addWindow added it, has
\* exactly one shadow clone in the preview, immediately below the content
\* node, for as long as its content clone is in the preview.
C1_InitWindowHasShadowClone ==
    (preview /\ qualifiedAtInit /\ Has(container_kids, Clone(MainWindow)))
        => ShadowBelowContent(MainWindow)

\* A preview made for a qualifying window, with the dialog added later.
C1_Witness ==
    /\ last = "add_dialog"
    /\ qualifiedAtInit
    /\ build = "part_000"
    /\ Has(container_kids, OverviewShadowActor(DialogWindow))
    /\ ShadowBelowContent(MainWindow)

\* C2: once the destroy event of the preview has been handled nothing of
\* the preview is left, and once the destroy event of a content clone that
\* carries the subscriptions has been handled, the shadow clone made for
\* it is destroyed and no registry entry of the clone is connected.
C2_PreviewDestroyLeavesNothing ==
    /\ last = "preview_destroyed" =>
          /\ conn = {}
          /\ \A w \in Windows : ~Has(preview_kids, OverviewShadowActor(w))
                                /\ ~Has(container_kids, OverviewShadowActor(w))
    /\ last = "content_destroyed" =>
          \A w \in Windows : ~Has(container_kids, Clone(w)) =>
              /\ ~Has(container_kids, OverviewShadowActor(w))
              /\ \A c \in conn : c[1] # Clone(w)

\* A shadow clone of a workspace group is in place when its host clone is a
\* child of the group and the shadow clone is the child just below it.
InPlace(id) ==
    LET kids == children[id[1]]
    IN /\ Has(kids, Clone(id[2]))
       /\ IndexOf(kids, Shadow(id[2], id[3])) + 1 = IndexOf(kids, Clone(id[2]))

\* C3: after a restack event, whatever the host did to the order of the
\* group's children before it, every live shadow clone is immediately
\* below its host clone.
C3_RestackOrdering ==
    last = "restacked" => \A id \in LiveShadows : InPlace(id)

C5_ShadowsGoneBeforeTeardown ==
    last = "finish" =>
        /\ liveAtOrig = 0
        /\ restacked_id = {} /\ ws_destroy_id = {}
        /\ notify_id = {} /\ clone_destroy_id = {}

\* C6: when the workspace groups of a session are destroyed, by the patched
\* finish or by the original one after disable(), no 'restacked' handler of
\* the session stays connected to the display.
C6_RestackReleasedWithGroups ==
    _switchData = "null" => restacked_id = {}

\* A session prepared by the patched method ended after disable().
C6_Witness ==
    /\ last = "finish_orig"
    /\ created > 0
    /\ restacked_id = {}

C8_NoShadowOutlivesHostClone ==
    /\ \A id \in LiveShadows : Has(children[id[1]], Clone(id[2]))
    /\ \A h \in notify_id \cup clone_destroy_id : Has(children[h[1]], Clone(h[2]))
\* C9: an attach for a window without a shadow actor or without rounded
\* corners (overview: ShouldHasRoundedCorners false; workspace switch:
\* effect absent or disabled) creates no shadow clone, inserts no node
\* and registers no subscription for the clone.
C9_NoAttachWithoutPrecondition ==
    /\ (last = "new_preview" /\ ~(shadow[MainWindow] /\ should_round[MainWindow])) =>
          /\ preview_kids = <<windowContainer>>
          /\ container_kids = <<Clone(MainWindow)>>
          /\ clone_effects = {}
          /\ conn = {}
    /\ (last = "add_dialog" /\ ~(shadow[DialogWindow] /\ should_round[DialogWindow])) =>
          /\ ~Has(preview_kids, OverviewShadowActor(DialogWindow))
          /\ ~Has(container_kids, OverviewShadowActor(DialogWindow))
          /\ Clone(DialogWindow) \notin clone_effects
          /\ \A c \in conn : c[3] # DialogWindow
    /\ last = "prepare" =>
          \A g \in Groups, w \in Windows :
              ~(shadow[w] /\ effect[w] = "on") =>
                  /\ ~Has(children[g], Shadow(w, calls))
                  /\ _shadow_clone[g][w] # calls
                  /\ <<g, w, calls>> \notin notify_id \cup clone_destroy_id

\* A prepare over a record whose window has a shadow actor but a disabled
\* effect, while the overview holds a preview of a window that has a
\* shadow actor but should not be rounded.
C9_Witness ==
    /\ last = "prepare"
    /\ \E g \in Groups, w \in Windows :
          Has(_windowRecords[g], w) /\ shadow[w] /\ effect[w] = "off"
    /\ preview /\ ~qualifiedAtInit
    /\ shadow[MainWindow] /\ ~should_round[MainWindow]
    /\ preview_kids = <<windowContainer>>

\* C10: no shadow clone of the attached dialog is ever in the preview.
C10_NoShadowForAttachedDialog ==
    /\ ~Has(preview_kids, OverviewShadowActor(DialogWindow))
    /\ ~Has(container_kids, OverviewShadowActor(DialogWindow))
\* The preview holds a shadow clone of MainWindow and the handler that
\* tears it down is connected.
ShadowActive ==
    /\ preview
    /\ \/ Has(preview_kids, OverviewShadowActor(MainWindow))
       \/ Has(container_kids, OverviewShadowActor(MainWindow))
    /\ \E c \in conn : c[2] = "destroy" /\ c[3] = MainWindow

\* C11: the step that destroys a ShadowActive preview destroys the shadow
\* clone, clears the smoothing effect and, if the attach had disabled the
\* window's own effect, leaves that effect enabled exactly when the
\* overview is not leaving.
C11_PreviewTeardown ==
    [][(ShadowActive /\ ~preview') =>
          /\ ~Has(preview_kids', OverviewShadowActor(MainWindow))
          /\ ~Has(container_kids', OverviewShadowActor(MainWindow))
          /\ clone_effects' = {}
          /\ (effect[MainWindow] = "off"
                /\ \E c \in conn : c[2] = "destroy" /\ c[4] = EffectRef(MainWindow))
               => (effect'[MainWindow] = "on" <=> ~leaving)]_vars
\* C12: a workspace-switch shadow clone is visible only if its host clone
\* is in the group and visible.
C12_VisibilityMirrored ==
    \A id \in LiveShadows :
        shadow_props[id].visible =>
            /\ Has(children[id[1]], Clone(id[2]))
            /\ clone_props[id[1]][id[2]].visible

\* C16: every host clone of a workspace group has at most one live shadow
\* clone, and that one is the shadow clone its _shadow_clone refers to.
C16_OneShadowPerHostClone ==
    \A g \in Groups, w \in Windows :
        Has(children[g], Clone(w)) =>
            /\ Cardinality({id \in LiveShadows : id[1] = g /\ id[2] = w}) <= 1
            /\ \A id \in LiveShadows :
                  (id[1] = g /\ id[2] = w) => _shadow_clone[g][w] = id[3]

\* C17: the depth offset of every live shadow clone is its host clone's
\* depth offset minus the epsilon.
C17_DepthMirrored ==
    \A id \in LiveShadows :
        Has(children[id[1]], Clone(id[2])) =>
            shadow_props[id].translationZ =
                clone_props[id[1]][id[2]].translationZ - Epsilon

\* C18: a restack event or a depth notification of a host clone leaves
\* the box of every shadow clone as it was.
C18_BoxUnchangedWhileActive ==
    [][last' \in {"restacked", "notify_z"} =>
          \A id \in ShadowIds : shadow_props'[id].box = shadow_props[id].box]_vars

\* A depth notification has moved a live shadow clone behind its host.
C18_Witness ==
    /\ last = "notify_z"
    /\ \E id \in LiveShadows :
          /\ shadow_props[id].translationZ = 100 - Epsilon
          /\ shadow_props[id].box = NewShadowProps(id[2]).box
          /\ shadow_props[id].box # NoBox

\* C19: the window's own rounded-corners effect is not enabled in a state
\* where the preview holds a shadow clone of the window.
C19_EffectDisabledWhileShadowActive ==
    \A w \in Windows :
        (Has(preview_kids, OverviewShadowActor(w))
            \/ Has(container_kids, OverviewShadowActor(w)))
        => effect[w] # "on"

\* C20: a preview whose window did not qualify when the preview was
\* created never holds a shadow clone.
C20_NoShadowIsAbsorbing ==
    (preview /\ ~qualifiedAtInit) =>
        \A w \in Windows :
            /\ ~Has(preview_kids, OverviewShadowActor(w))
            /\ ~Has(container_kids, OverviewShadowActor(w))
\* The inputs are those of a window that is not an attached dialog, with
\* every object the allocation reads present.
NonDialogInputs ==
    /\ geo_in.meta_win /\ geo_in.source /\ geo_in.parent
    /\ ~geo_in.attached

\* The window's frame rectangle is not empty.
PositiveFrame ==
    /\ geo_in.frame_rect.width > 0
    /\ geo_in.frame_rect.height > 0

\* C13: the shadow clone box of a workspace switch has padding
\* SHADOW_PADDING * scale factor, origin clone + frame - actor - padding
\* and size frame + 2 * padding.
C13_WorkspaceSwitchBox ==
    last = "switch_box" =>
        LET padding == SHADOW_PADDING * geo_in.scale
        IN /\ ws_box.x = geo_in.target.x + geo_in.frame_rect.x
                            - geo_in.actor.x - padding
           /\ ws_box.y = geo_in.target.y + geo_in.frame_rect.y
                            - geo_in.actor.y - padding
           /\ ws_box.width = geo_in.frame_rect.width + 2 * padding
           /\ ws_box.height = geo_in.frame_rect.height + 2 * padding

\* The box of a clone at (100, 50) whose actor is at (80, 30), scale 2.
C13_Witness ==
    /\ last = "switch_box"
    /\ geo_in.scale = 2
    /\ geo_in.target = [x |-> 100, y |-> 50]
    /\ geo_in.actor = [x |-> 80, y |-> 30]
    /\ geo_in.frame_rect.width = 800
    /\ ws_box.x = 100 + 90 - 80 - 160
    /\ ws_box.width = 800 + 320

\* C14: for a window that is not a dialog the overview allocation writes
\* origin (-padding, -padding) and size container + 2 * padding, with
\* padding = SHADOW_PADDING * (container width / frame width) * scale
\* factor, whatever the buffer rectangle and the host clone's position.
C14_OverviewBox ==
    (last = "allocate" /\ NonDialogInputs /\ PositiveFrame) =>
        LET container_scale == Over(Num(geo_in.container.width),
                                    Num(geo_in.frame_rect.width))
            padding == Times(Times(Num(SHADOW_PADDING), container_scale),
                             Num(geo_in.scale))
        IN /\ ~allocation.threw
           /\ allocation.box.x = Minus(Num(0), padding)
           /\ allocation.box.y = Minus(Num(0), padding)
           /\ allocation.box.width =
                 Plus(Num(geo_in.container.width), Times(Num(2), padding))
           /\ allocation.box.height =
                 Plus(Num(geo_in.container.height), Times(Num(2), padding))

\* C15: for a window with a non-empty frame the boxes of both computations
\* have non-negative width and height, and doubling the scale factor
\* doubles the padding.
C15_BoxSizeNonNegative ==
    LET doubled == [geo_in EXCEPT !.scale = 2 * @]
        Padding(b, f) == (b.width - f.width) \div 2
    IN /\ (last = "allocate" /\ PositiveFrame) =>
             /\ Leq(Num(0), allocation.box.width)
             /\ Leq(Num(0), allocation.box.height)
       /\ last = "switch_box" =>
             /\ ws_box.width >= 0
             /\ ws_box.height >= 0
       /\ PaddingsByPreview(doubled) = Times(Num(2), PaddingsByPreview(geo_in))
       /\ PaddingsByTarget(doubled) = Times(Num(2), PaddingsByTarget(geo_in))
       /\ Padding(ShadowCloneBox(doubled.frame_rect, doubled.target,
                                 doubled.actor, doubled.scale),
                  doubled.frame_rect)
            = 2 * Padding(ShadowCloneBox(geo_in.frame_rect, geo_in.target,
                                         geo_in.actor, geo_in.scale),
                          geo_in.frame_rect)
\* The allocation reads an object that is gone: the meta window, or in
\* part_000 the host clone's source or its parent.
StaleInputs ==
    \/ ~geo_in.meta_win
    \/ build = "part_000" /\ (~geo_in.source \/ ~geo_in.parent)

\* C21: an allocation that finds the window or the host clone gone throws
\* nothing and leaves the box as it was passed in.
C21_StaleAllocationIsNoOp ==
    (last = "allocate" /\ StaleInputs) =>
        /\ ~allocation.threw
        /\ allocation.box = BoxIn
\* The steps in which a hook of the synchronizers has run.
HookSteps == {"prepare", "restacked", "finish", "new_preview", "add_dialog",
              "preview_destroyed", "content_destroyed"}

C23_ExactlyOnceRelease ==
    /\ ~doubleDisconnect
    /\ \A h \in notify_id \cup clone_destroy_id : Has(children[h[1]], Clone(h[2]))
    /\ \A h \in clone_destroy_id : h \in notify_id
    /\ (ws_destroy_id # {} \/ restacked_id # {}) => _switchData = "set"
    /\ restacked_id = ws_destroy_id
    /\ \A c \in conn :
          IF c[1] = Preview THEN preview
          ELSE preview /\ Has(container_kids, c[1])

\* Sessions and a preview have come and gone and released every handler
\* they had connected.
C23_Witness ==
    /\ last = "preview_destroyed"
    /\ created > 0
    /\ destroyed > 0
    /\ _switchData = "null"
    /\ restacked_id = {} /\ ws_destroy_id = {}
    /\ notify_id = {} /\ clone_destroy_id = {}
    /\ conn = {}
    /\ enabled
\* C24: the display has one restack handler of the subsystem for every
\* workspace group of the session and none without a session.
C24_OneRestackHandlerPerGroup ==
    \A g \in Groups :
        LET n == Cardinality({h \in restacked_id : h[1] = g})
        IN /\ n <= (IF _switchData = "set" THEN 1 ELSE 0)
           /\ last = "prepare" => n = 1
\* Every _shadow_clone reference of the records recs points to a child
\* of the group whose children are kids.
RefsAlive(kids, recs, refs) ==
    \A i \in 1..Len(recs) :
        refs[recs[i]] # 0 => Has(kids, Shadow(recs[i], refs[recs[i]]))

\* C25: wherever a restack handler is connected for a group, every
\* _shadow_clone reference of the group's records points to a live child
\* of the group, now and after the loop of _finishWorkspaceSwitch has
\* destroyed the shadow clones, before the group itself is destroyed.
C25_RestackSeesLiveShadowClones ==
    \A g \in Groups :
        (\E h \in restacked_id : h[1] = g) =>
            LET loop == FinishLoop(children[g], _windowRecords[g], _shadow_clone[g], 1, FALSE)
            IN /\ RefsAlive(children[g], _windowRecords[g], _shadow_clone[g])
               /\ RefsAlive(loop.kids, _windowRecords[g], loop.refs)

\* A restack event has run on a group with a referenced shadow clone.
C25_Witness ==
    /\ last = "restacked"
    /\ \E g \in Groups, i \in 1..2 :
          /\ \E h \in restacked_id : h[1] = g
          /\ i <= Len(_windowRecords[g])
          /\ _shadow_clone[g][_windowRecords[g][i]] # 0
          /\ Has(children[g], Shadow(_windowRecords[g][i],
                                     _shadow_clone[g][_windowRecords[g][i]]))
\* C26: once the preview is destroyed and the overview has been left, no
\* window's own effect is still disabled.
C26_EffectRestored ==
    (~preview /\ last = "left") =>
        \A w \in Windows : effect[w] # "off"
\* C27: after disable() the three host methods are the original ones, and
\* what enable() has saved is never the extension's own patched methods.
C27_EnableDisableRoundTrip ==
    /\ last = "disable" => proto = "original"
    /\ _orig # "patched"

\* disable() has run in the middle of a workspace-switch session that the
\* patched prepare had started.
C27_Witness ==
    /\ last = "disable"
    /\ ~enabled
    /\ proto = "original"
    /\ _switchData = "set"
    /\ created > 0
\* C28: when disable() has returned no handler of the subsystem is
\* connected to a host object and none of its shadow clones is alive, in
\* a workspace group or in a preview.
C28_DisableLeavesNothing ==
    last = "disable" =>
        /\ restacked_id = {} /\ ws_destroy_id = {}
        /\ notify_id = {} /\ clone_destroy_id = {}
        /\ conn = {}
        /\ LiveShadows = {}
        /\ \A w \in Windows :
              /\ ~Has(preview_kids, OverviewShadowActor(w))
              /\ ~Has(container_kids, OverviewShadowActor(w))
=============================================================================
